---- MODULE Spec2Model ----
(***************************************************************************)
(* Model of the efuse crate (src/src/lib.rs): the software fuses Fuse and   *)
(* AtomicFuse.  A latch is a record [initial_state, zapped].  A Fuse is     *)
(* owned by one thread and every method body is one step.  An AtomicFuse    *)
(* is shared by several threads; every method body is one step at its       *)
(* single atomic access (load, fetch_or, compare_and_swap), except eq,      *)
(* which loads the two flags one after the other, and clone, which loads    *)
(* the flag and then builds the new latch.  A call runs its body and        *)
(* returns in a later step, so that other threads act in between and        *)
(* "after the call has returned" can be stated.  into() and ! take an       *)
(* AtomicFuse by value: the latch is gone after the call.                   *)
(***************************************************************************)
EXTENDS Naturals, FiniteSets, Sequences, TLC

VARIABLES kind, nthr, ctor, given, latch, pc, call, ncalls, acted, done

vars == <<kind, nthr, ctor, given, latch, pc, call, ncalls, acted, done>>

\* ------------------------------------------------------------------ bounds
\* threads sharing an AtomicFuse
NThreads == 2
\* calls made in one behaviour
MaxCalls == 3
\* threads of the zap_once race
MaxK == 3

\* two latches of the same type: the operands of ==
Latches == {1, 2}

\* the latches of the behaviour
Ls == DOMAIN latch

\* ----------------------------------------------------------- result values
Xor(a, b) == a # b

Val(b) == [tag |-> "bool", val |-> b]
Ok(b) == [tag |-> "Ok", val |-> b]
AlreadyZappedError == [tag |-> "Err", val |-> FALSE]

\* ------------------------------------------------------------------- Fuse
Fuse_new(initial_state) == [initial_state |-> initial_state, zapped |-> FALSE]

Fuse_default == [initial_state |-> FALSE, zapped |-> FALSE]

Fuse_from(b) == [initial_state |-> b, zapped |-> FALSE]

Fuse_initial_state(self) == self.initial_state

Fuse_as_bool(self) == Xor(self.initial_state, self.zapped)

\* zap written with ^= instead of |=
Fuse_zap_toggle(self) ==
  [self |-> [self EXCEPT !.zapped = Xor(@, TRUE)],
   ret  |-> Xor(self.initial_state, TRUE)]

Fuse_zap(self) ==
  [self |-> [self EXCEPT !.zapped = (@ \/ TRUE)],
   ret  |-> Xor(self.initial_state, TRUE)]

\* zap_once without the test of the flag
Fuse_zap_once_unchecked(self) ==
  [self |-> Fuse_zap(self).self, ret |-> Ok(Fuse_zap(self).ret)]

Fuse_zap_once(self) ==
  IF self.zapped
    THEN [self |-> self, ret |-> AlreadyZappedError]
    ELSE [self |-> Fuse_zap(self).self, ret |-> Ok(Fuse_zap(self).ret)]

Fuse_is_zapped(self) == self.zapped

\* equality of the logical values instead of the fields
Fuse_eq_logical(self, other) == Fuse_as_bool(self) = Fuse_as_bool(other)

Fuse_eq(self, other) ==
  self.initial_state = other.initial_state /\ self.zapped = other.zapped

\* Into<bool>
Fuse_into(self) == Xor(self.initial_state, self.zapped)

\* Not, with Output = bool
Fuse_not(self) == ~Fuse_as_bool(self)

\* hash feeding the hasher the logical value only
Fuse_hash_logical(self) == <<Fuse_as_bool(self)>>

\* Hash: the values fed to the hasher, in order
Fuse_hash(self) == <<self.initial_state, Fuse_is_zapped(self)>>

\* ------------------------------------------------------------- AtomicBool
AtomicBool_new(v) == v

\* a load that does not see the stores made before it
AtomicBool_load_stale(v) == FALSE

AtomicBool_load(v) == v

AtomicBool_fetch_or(v, val) == [new |-> (v \/ val), old |-> v]

AtomicBool_compare_and_swap(v, current, new) ==
  [new |-> IF v = current THEN new ELSE v, old |-> v]

AtomicBool_into_inner(v) == v

\* ------------------------------------------------------------- AtomicFuse
\* the flag initialised from the argument
AtomicFuse_new_flag(initial_state) ==
  [initial_state |-> initial_state, zapped |-> AtomicBool_new(initial_state)]

AtomicFuse_new(initial_state) ==
  [initial_state |-> initial_state, zapped |-> AtomicBool_new(FALSE)]

AtomicFuse_default == [initial_state |-> FALSE, zapped |-> AtomicBool_new(FALSE)]

\* From<bool> with the flag initialised from the argument
AtomicFuse_from_flag(b) == [initial_state |-> b, zapped |-> AtomicBool_new(b)]

AtomicFuse_from(b) == [initial_state |-> b, zapped |-> AtomicBool_new(FALSE)]

\* initial_state() returning the current value
AtomicFuse_initial_state_current(self) ==
  Xor(self.initial_state, AtomicBool_load(self.zapped))

AtomicFuse_initial_state(self) == self.initial_state

\* the flag read inverted
AtomicFuse_as_bool_inverted(self) ==
  Xor(self.initial_state, ~AtomicBool_load(self.zapped))

AtomicFuse_as_bool(self) == Xor(self.initial_state, AtomicBool_load(self.zapped))

\* zap with fetch_and instead of fetch_or
AtomicFuse_zap_and(self) ==
  [self |-> [self EXCEPT !.zapped = (@ /\ TRUE)],
   ret  |-> Xor(self.initial_state, TRUE)]

\* zap with fetch_xor instead of fetch_or
AtomicFuse_zap_xor(self) ==
  [self |-> [self EXCEPT !.zapped = Xor(@, TRUE)],
   ret  |-> Xor(self.initial_state, TRUE)]

\* zap returning the value computed from the flag fetch_or returned
AtomicFuse_zap_old(self) ==
  [self |-> [self EXCEPT !.zapped = AtomicBool_fetch_or(@, TRUE).new],
   ret  |-> Xor(self.initial_state, AtomicBool_fetch_or(self.zapped, TRUE).old)]

AtomicFuse_zap(self) ==
  [self |-> [self EXCEPT !.zapped = AtomicBool_fetch_or(@, TRUE).new],
   ret  |-> Xor(self.initial_state, TRUE)]

\* zap_once without the test of the flag
AtomicFuse_zap_once_unchecked(self) ==
  [self |-> [self EXCEPT !.zapped = TRUE], ret |-> Ok(Xor(self.initial_state, TRUE))]

\* zap_once with the test of the compare_and_swap result inverted
AtomicFuse_zap_once_inverted(self) ==
  LET cas == AtomicBool_compare_and_swap(self.zapped, FALSE, TRUE)
  IN  [self |-> [self EXCEPT !.zapped = cas.new],
       ret  |-> IF ~cas.old THEN AlreadyZappedError
                            ELSE Ok(Xor(self.initial_state, TRUE))]

\* zap_once with fetch_xor instead of compare_and_swap
AtomicFuse_zap_once_xor(self) ==
  [self |-> [self EXCEPT !.zapped = Xor(@, TRUE)],
   ret  |-> IF self.zapped THEN AlreadyZappedError
                           ELSE Ok(Xor(self.initial_state, TRUE))]

AtomicFuse_zap_once(self) ==
  LET cas == AtomicBool_compare_and_swap(self.zapped, FALSE, TRUE)
  IN  [self |-> [self EXCEPT !.zapped = cas.new],
       ret  |-> IF cas.old THEN AlreadyZappedError
                           ELSE Ok(Xor(self.initial_state, TRUE))]

AtomicFuse_is_zapped(self) == AtomicBool_load(self.zapped)

\* eq, given the two flag values its two is_zapped() calls returned
AtomicFuse_eq(self, other, selfZapped, otherZapped) ==
  selfZapped = otherZapped /\ self.initial_state = other.initial_state

\* clone building a fresh flag instead of copying the loaded one
AtomicFuse_clone_fresh(self, zapped) ==
  [initial_state |-> self.initial_state, zapped |-> AtomicBool_new(FALSE)]

\* clone, given the flag value its load returned
AtomicFuse_clone(self, zapped) ==
  [initial_state |-> self.initial_state, zapped |-> AtomicBool_new(zapped)]

\* Into<bool>
AtomicFuse_into(self) ==
  Xor(self.initial_state, AtomicBool_into_inner(self.zapped))

\* ! negating the initial state, whatever the flag
AtomicFuse_not_initial(self) == ~self.initial_state

\* Not, with Output = bool
AtomicFuse_not(self) == ~AtomicFuse_as_bool(self)

\* Hash: the values fed to the hasher, in order
AtomicFuse_hash(self) == <<self.initial_state, AtomicFuse_is_zapped(self)>>

\* ----------------------------------------------------------- construction
Ctors == {"new", "from", "default"}

Construct(k, c, b) ==
  IF k = "Fuse"
    THEN CASE c = "new" -> Fuse_new(b)
           [] c = "from" -> Fuse_from(b)
           [] OTHER -> Fuse_default
    ELSE CASE c = "new" -> AtomicFuse_new(b)
           [] c = "from" -> AtomicFuse_from(b)
           [] OTHER -> AtomicFuse_default

\* the queries of a latch of the modelled kind
AsBool(l) ==
  IF kind = "Fuse" THEN Fuse_as_bool(latch[l]) ELSE AtomicFuse_as_bool(latch[l])

IsZapped(l) ==
  IF kind = "Fuse" THEN Fuse_is_zapped(latch[l]) ELSE AtomicFuse_is_zapped(latch[l])

InitialState(l) ==
  IF kind = "Fuse" THEN Fuse_initial_state(latch[l])
                   ELSE AtomicFuse_initial_state(latch[l])

\* the hash input of latch l, and l == m with nothing running in between
Hash(l) ==
  IF kind = "Fuse" THEN Fuse_hash(latch[l]) ELSE AtomicFuse_hash(latch[l])

Eq(l, m) ==
  IF kind = "Fuse"
    THEN Fuse_eq(latch[l], latch[m])
    ELSE AtomicFuse_eq(latch[l], latch[m], AtomicFuse_is_zapped(latch[l]),
                       AtomicFuse_is_zapped(latch[m]))

\* ------------------------------------------------------------------ calls
\* A call is recorded from its access to the flag until it returns.  What
\* the caller does before that access touches nothing shared, so a call
\* starts with its access.  pre: the two flags when the call started; at: the
\* flag and the calls that had acted on the latch when the call ran its body.
NoCall ==
  [op |-> "none", self |-> 1, other |-> 1, reg |-> FALSE, ret |-> Val(FALSE),
   pre |-> [s |-> FALSE, o |-> FALSE],
   at |-> [zapped |-> FALSE, zap |-> FALSE, once |-> 0]]

\* calls on a latch that have returned
NoneDone == [zapRet |-> {}, asBool |-> {}, nOk |-> 0, nErr |-> 0]

\* calls on a latch that have made their access
NoneActed == [zap |-> FALSE, once |-> 0]

\* ------------------------------------------------------------------- Init
\* n threads hold the latches ls of kind k, all built by the same constructor
InitWith(k, n, ls) ==
  /\ kind = k
  /\ nthr = n
  /\ ctor \in Ctors
  /\ given \in [ls -> BOOLEAN]
  /\ ctor = "default" => given = [l \in ls |-> FALSE]
  /\ latch = [l \in ls |-> Construct(k, ctor, given[l])]
  /\ pc = [t \in 1..n |-> "idle"]
  /\ call = [t \in 1..n |-> NoCall]
  /\ ncalls = 0
  /\ acted = [l \in ls |-> NoneActed]
  /\ done = [l \in ls |-> NoneDone]

\* one latch: a Fuse with its owner, or an AtomicFuse shared by NThreads threads
Init == InitWith("Fuse", 1, {1}) \/ InitWith("AtomicFuse", NThreads, {1})

\* ----------------------------------------------------------------- bodies
\* thread t runs the body of op on latch self: the latch becomes newself, the
\* call's result is ret
Body(t, op, self, other, newself, ret) ==
  /\ latch' = [latch EXCEPT ![self] = newself]
  /\ call' = [call EXCEPT ![t] =
                [@ EXCEPT !.op = op, !.self = self, !.other = other, !.ret = ret,
                          !.pre = IF pc[t] = "eq2" THEN @
                                  ELSE [s |-> latch[self].zapped,
                                        o |-> latch[other].zapped],
                          !.at = [zapped |-> latch[self].zapped,
                                  zap |-> acted[self].zap,
                                  once |-> acted[self].once]]]
  /\ pc' = [pc EXCEPT ![t] = "ret"]
  /\ acted' = [acted EXCEPT ![self] =
                 [zap |-> (@.zap \/ op = "zap"),
                  once |-> IF op = "zap_once" /\ @.once < 2
                             THEN @.once + 1 ELSE @.once]]
  /\ UNCHANGED <<kind, nthr, ctor, given, done>>

\* thread t of a latch of kind k starts a call
Start(t, k) ==
  /\ kind = k
  /\ pc[t] = "idle"
  /\ ncalls' = ncalls + 1

FuseZap(t, self) ==
  /\ Start(t, "Fuse")
  /\ Body(t, "zap", self, self, Fuse_zap(latch[self]).self, Val(Fuse_zap(latch[self]).ret))

FuseZapOnce(t, self) ==
  /\ Start(t, "Fuse")
  /\ Body(t, "zap_once", self, self,
          Fuse_zap_once(latch[self]).self, Fuse_zap_once(latch[self]).ret)

FuseAsBool(t, self) ==
  /\ Start(t, "Fuse")
  /\ Body(t, "as_bool", self, self, latch[self], Val(Fuse_as_bool(latch[self])))

FuseIsZapped(t, self) ==
  /\ Start(t, "Fuse")
  /\ Body(t, "is_zapped", self, self, latch[self], Val(Fuse_is_zapped(latch[self])))

FuseInitialState(t, self) ==
  /\ Start(t, "Fuse")
  /\ Body(t, "initial_state", self, self, latch[self],
          Val(Fuse_initial_state(latch[self])))

FuseEq(t, self, other) ==
  /\ Start(t, "Fuse")
  /\ Body(t, "eq", self, other, latch[self], Val(Fuse_eq(latch[self], latch[other])))

AtomicZap(t, self) ==
  /\ Start(t, "AtomicFuse")
  /\ Body(t, "zap", self, self,
          AtomicFuse_zap(latch[self]).self, Val(AtomicFuse_zap(latch[self]).ret))

\* zap_once retrying its compare_and_swap until it succeeds
AtomicZapOnce_spin(t, self) ==
  /\ Start(t, "AtomicFuse")
  /\ IF latch[self].zapped
       THEN /\ pc' = [pc EXCEPT ![t] = "spin"]
            /\ call' = [call EXCEPT ![t] = [NoCall EXCEPT !.op = "zap_once"]]
            /\ UNCHANGED <<kind, nthr, ctor, given, latch, acted, done>>
       ELSE Body(t, "zap_once", self, self,
                 AtomicFuse_zap_once(latch[self]).self, AtomicFuse_zap_once(latch[self]).ret)

AtomicZapOnce(t, self) ==
  /\ Start(t, "AtomicFuse")
  /\ Body(t, "zap_once", self, self,
          AtomicFuse_zap_once(latch[self]).self, AtomicFuse_zap_once(latch[self]).ret)

AtomicAsBool(t, self) ==
  /\ Start(t, "AtomicFuse")
  /\ Body(t, "as_bool", self, self, latch[self], Val(AtomicFuse_as_bool(latch[self])))

\* is_zapped reading the flag with swap(true) instead of load
AtomicIsZapped_swap(t, self) ==
  /\ Start(t, "AtomicFuse")
  /\ Body(t, "is_zapped", self, self, [latch[self] EXCEPT !.zapped = TRUE],
          Val(latch[self].zapped))

AtomicIsZapped(t, self) ==
  /\ Start(t, "AtomicFuse")
  /\ Body(t, "is_zapped", self, self, latch[self],
          Val(AtomicFuse_is_zapped(latch[self])))

AtomicInitialState(t, self) ==
  /\ Start(t, "AtomicFuse")
  /\ Body(t, "initial_state", self, self, latch[self],
          Val(AtomicFuse_initial_state(latch[self])))

\* eq: self.is_zapped() is loaded first ...
AtomicEqLoadSelf(t, self, other) ==
  /\ Start(t, "AtomicFuse")
  /\ call' = [call EXCEPT ![t] =
                [NoCall EXCEPT !.op = "eq", !.self = self, !.other = other,
                               !.reg = AtomicFuse_is_zapped(latch[self]),
                               !.pre = [s |-> latch[self].zapped,
                                        o |-> latch[other].zapped]]]
  /\ pc' = [pc EXCEPT ![t] = "eq2"]
  /\ UNCHANGED <<kind, nthr, ctor, given, latch, acted, done>>

\* ... then other.is_zapped(), and the result is computed
AtomicEqLoadOther(t) ==
  /\ kind = "AtomicFuse"
  /\ pc[t] = "eq2"
  /\ Body(t, "eq", call[t].self, call[t].other, latch[call[t].self],
          Val(AtomicFuse_eq(latch[call[t].self], latch[call[t].other], call[t].reg,
                            AtomicFuse_is_zapped(latch[call[t].other]))))
  /\ UNCHANGED ncalls

\* ------------------------------------------------------------------- hash
FuseHash(t, self) ==
  /\ Start(t, "Fuse")
  /\ Body(t, "hash", self, self, latch[self], Val(Fuse_hash(latch[self])))

AtomicHash(t, self) ==
  /\ Start(t, "AtomicFuse")
  /\ Body(t, "hash", self, self, latch[self], Val(AtomicFuse_hash(latch[self])))

\* ------------------------------------------------------------ conversions
\* f with f[l] = v, l added to the domain when it is not there
Put(f, l, v) == [x \in DOMAIN f \cup {l} |-> IF x = l THEN v ELSE f[x]]

\* the place of the next latch to be built: one no latch has had
NewLatch == CHOOSE n \in Latches \ DOMAIN given : TRUE

\* thread t runs the body of op, which takes the latch self by value: the
\* latch is moved into the call and is gone afterwards
Consume(t, op, self, ret) ==
  /\ latch' = [l \in Ls \ {self} |-> latch[l]]
  /\ call' = [call EXCEPT ![t] =
                [@ EXCEPT !.op = op, !.self = self, !.other = self, !.ret = ret,
                          !.pre = [s |-> latch[self].zapped,
                                   o |-> latch[self].zapped],
                          !.at = [zapped |-> latch[self].zapped,
                                  zap |-> acted[self].zap,
                                  once |-> acted[self].once]]]
  /\ pc' = [pc EXCEPT ![t] = "ret"]
  /\ UNCHANGED <<kind, nthr, ctor, given, acted, done>>

\* a Fuse is Copy: into() and ! take a copy and the latch stays
FuseInto(t, self) ==
  /\ Start(t, "Fuse")
  /\ Body(t, "into", self, self, latch[self], Val(Fuse_into(latch[self])))

FuseNot(t, self) ==
  /\ Start(t, "Fuse")
  /\ Body(t, "not", self, self, latch[self], Val(Fuse_not(latch[self])))

AtomicInto(t, self) ==
  /\ Start(t, "AtomicFuse")
  /\ Consume(t, "into", self, Val(AtomicFuse_into(latch[self])))

AtomicNot(t, self) ==
  /\ Start(t, "AtomicFuse")
  /\ Consume(t, "not", self, Val(AtomicFuse_not(latch[self])))

\* the caller of into() builds a latch from the bool it got
FromBool(t) ==
  LET b == call[t].ret.val IN
  /\ pc[t] = "ret"
  /\ call[t].op = "into"
  /\ Latches \ DOMAIN given # {}
  /\ latch' = Put(latch, NewLatch, Construct(kind, "from", b))
  /\ given' = Put(given, NewLatch, b)
  /\ acted' = Put(acted, NewLatch, NoneActed)
  /\ done' = Put(done, NewLatch, NoneDone)
  /\ pc' = [pc EXCEPT ![t] = "idle"]
  /\ call' = [call EXCEPT ![t] = NoCall]
  /\ UNCHANGED <<kind, nthr, ctor, ncalls>>

\* ------------------------------------------------------------------ clone
\* clone: the flag of self is loaded; the latch to be returned has its
\* place from here on ...
AtomicCloneLoad(t, self) ==
  /\ Start(t, "AtomicFuse")
  /\ Latches \ DOMAIN given # {}
  /\ call' = [call EXCEPT ![t] =
                [NoCall EXCEPT !.op = "clone", !.self = self, !.other = NewLatch,
                               !.reg = AtomicBool_load(latch[self].zapped),
                               !.pre = [s |-> latch[self].zapped,
                                        o |-> latch[self].zapped],
                               !.at = [zapped |-> latch[self].zapped,
                                       zap |-> acted[self].zap,
                                       once |-> acted[self].once]]]
  /\ given' = Put(given, NewLatch, latch[self].initial_state)
  /\ acted' = Put(acted, NewLatch, NoneActed)
  /\ done' = Put(done, NewLatch, NoneDone)
  /\ pc' = [pc EXCEPT ![t] = "clone2"]
  /\ UNCHANGED <<kind, nthr, ctor, latch>>

\* ... then the new latch is built from the loaded value and returned
AtomicCloneBuild(t) ==
  LET c == call[t] IN
  /\ kind = "AtomicFuse"
  /\ pc[t] = "clone2"
  /\ latch' = Put(latch, c.other, AtomicFuse_clone(latch[c.self], c.reg))
  /\ pc' = [pc EXCEPT ![t] = "idle"]
  /\ call' = [call EXCEPT ![t] = NoCall]
  /\ UNCHANGED <<kind, nthr, ctor, given, ncalls, acted, done>>

\* ----------------------------------------------------------------- return
\* the call of thread t returns; the thread goes on at to
Return(t, to) ==
  LET c == call[t] IN
  /\ pc[t] = "ret"
  /\ pc' = [pc EXCEPT ![t] = to]
  /\ done' = [done EXCEPT ![c.self] =
                [zapRet |-> IF c.op = "zap" \/ (c.op = "zap_once" /\ c.ret.tag = "Ok")
                              THEN @.zapRet \cup {c.ret.val} ELSE @.zapRet,
                 asBool |-> IF c.op = "as_bool"
                              THEN @.asBool \cup {c.ret.val} ELSE @.asBool,
                 nOk |-> IF c.op = "zap_once" /\ c.ret.tag = "Ok"
                           THEN @.nOk + 1 ELSE @.nOk,
                 nErr |-> IF c.op = "zap_once" /\ c.ret.tag = "Err"
                            THEN @.nErr + 1 ELSE @.nErr]]
  /\ call' = [call EXCEPT ![t] = NoCall]
  /\ UNCHANGED <<kind, nthr, ctor, given, latch, ncalls, acted>>

\* ------------------------------------------------------------------- Next
\* the methods of one latch
Next ==
  \E t \in 1..nthr :
    \/ /\ ncalls < MaxCalls
       /\ \E self \in Ls :
            \/ FuseZap(t, self)
            \/ FuseZapOnce(t, self)
            \/ FuseAsBool(t, self)
            \/ FuseIsZapped(t, self)
            \/ FuseInitialState(t, self)
            \/ AtomicZap(t, self)
            \/ AtomicZapOnce(t, self)
            \/ AtomicAsBool(t, self)
            \/ AtomicIsZapped(t, self)
            \/ AtomicInitialState(t, self)
    \/ Return(t, "idle")

Spec == Init /\ [][Next]_vars

\* the methods of one latch, every thread scheduled fairly: a thread that
\* is in a call goes on running until the call has returned
Fairness == \A t \in 1..NThreads : WF_vars(t \in 1..nthr /\ Return(t, "idle"))

SpecFair == Init /\ [][Next]_vars /\ Fairness

\* ---------------------------------------------------- == between two latches
\* two latches of one type are zapped and compared, also a latch with itself
InitEq ==
  InitWith("Fuse", 1, Latches) \/ InitWith("AtomicFuse", NThreads, Latches)

NextEq ==
  \E t \in 1..nthr :
    \/ /\ ncalls < MaxCalls
       /\ \E self \in Ls, other \in Ls :
            \/ FuseZap(t, self)
            \/ FuseZapOnce(t, self)
            \/ FuseEq(t, self, other)
            \/ AtomicZap(t, self)
            \/ AtomicZapOnce(t, self)
            \/ AtomicEqLoadSelf(t, self, other)
    \/ AtomicEqLoadOther(t)
    \/ Return(t, "idle")

SpecEq == InitEq /\ [][NextEq]_vars

\* --------------------------------------------- the zap_once race (K threads)
\* K threads share one latch; each calls zap_once() once and finishes
InitRace == \E k \in 1..MaxK : InitWith("AtomicFuse", k, {1})

NextRace ==
  \E t \in 1..nthr :
    \/ AtomicZapOnce(t, 1)
    \/ Return(t, "fin")

SpecRace == InitRace /\ [][NextRace]_vars

\* ------------------------------------------------- conversions to and from bool
\* one owner zaps a latch, converts it with into() and !, and builds a latch
\* from the converted value
InitConv == InitWith("Fuse", 1, {1}) \/ InitWith("AtomicFuse", 1, {1})

NextConv ==
  \E t \in 1..nthr :
    \/ /\ ncalls < MaxCalls
       /\ \E self \in Ls :
            \/ FuseZap(t, self)
            \/ FuseZapOnce(t, self)
            \/ FuseInto(t, self)
            \/ FuseNot(t, self)
            \/ AtomicZap(t, self)
            \/ AtomicZapOnce(t, self)
            \/ AtomicInto(t, self)
            \/ AtomicNot(t, self)
    \/ FromBool(t)
    \/ Return(t, "idle")

SpecConv == InitConv /\ [][NextConv]_vars

\* ----------------------------------------------------- clone of an AtomicFuse
\* threads sharing an AtomicFuse zap it and clone it, and zap the clone
InitClone == InitWith("AtomicFuse", NThreads, {1})

NextClone ==
  \E t \in 1..nthr :
    \/ /\ ncalls < MaxCalls
       /\ \E self \in Ls :
            \/ AtomicZap(t, self)
            \/ AtomicZapOnce(t, self)
            \/ AtomicCloneLoad(t, self)
    \/ AtomicCloneBuild(t)
    \/ Return(t, "idle")

SpecClone == InitClone /\ [][NextClone]_vars

\* ----------------------------------------- a Fuse and an AtomicFuse side by side
\* the methods both types have
Methods == {"zap", "zap_once", "as_bool", "is_zapped", "initial_state"}

\* the call of method op on the Fuse self: the latch afterwards and the result
FuseCall(op, self) ==
  CASE op = "zap" -> [self |-> Fuse_zap(self).self, ret |-> Val(Fuse_zap(self).ret)]
    [] op = "zap_once" -> Fuse_zap_once(self)
    [] op = "as_bool" -> [self |-> self, ret |-> Val(Fuse_as_bool(self))]
    [] op = "is_zapped" -> [self |-> self, ret |-> Val(Fuse_is_zapped(self))]
    [] OTHER -> [self |-> self, ret |-> Val(Fuse_initial_state(self))]

\* the call of method op on the AtomicFuse self
AtomicCall(op, self) ==
  CASE op = "zap" ->
         [self |-> AtomicFuse_zap(self).self, ret |-> Val(AtomicFuse_zap(self).ret)]
    [] op = "zap_once" -> AtomicFuse_zap_once(self)
    [] op = "as_bool" -> [self |-> self, ret |-> Val(AtomicFuse_as_bool(self))]
    [] op = "is_zapped" -> [self |-> self, ret |-> Val(AtomicFuse_is_zapped(self))]
    [] OTHER -> [self |-> self, ret |-> Val(AtomicFuse_initial_state(self))]

\* latch 1 is a Fuse and latch 2 an AtomicFuse, built by the same constructor
\* with the same argument; thread 1 owns the Fuse, thread 2 alone drives the
\* AtomicFuse
InitPair ==
  /\ kind = "both"
  /\ nthr = 2
  /\ ctor \in Ctors
  /\ given \in [Latches -> BOOLEAN]
  /\ given[1] = given[2]
  /\ ctor = "default" => given = [l \in Latches |-> FALSE]
  /\ latch = [l \in Latches |->
                Construct(IF l = 1 THEN "Fuse" ELSE "AtomicFuse", ctor, given[l])]
  /\ pc = [t \in 1..2 |-> "idle"]
  /\ call = [t \in 1..2 |-> NoCall]
  /\ ncalls = 0
  /\ acted = [l \in Latches |-> NoneActed]
  /\ done = [l \in Latches |-> NoneDone]

\* the same method is called on the Fuse and on the AtomicFuse
PairCall(op) ==
  /\ kind = "both"
  /\ \A t \in 1..2 : pc[t] = "idle"
  /\ ncalls' = ncalls + 1
  /\ latch' = [l \in Latches |-> IF l = 1 THEN FuseCall(op, latch[1]).self
                                          ELSE AtomicCall(op, latch[2]).self]
  /\ call' = [t \in 1..2 |->
                [NoCall EXCEPT !.op = op, !.self = t, !.other = t,
                               !.ret = IF t = 1 THEN FuseCall(op, latch[1]).ret
                                                ELSE AtomicCall(op, latch[2]).ret,
                               !.pre = [s |-> latch[t].zapped, o |-> latch[t].zapped],
                               !.at = [zapped |-> latch[t].zapped,
                                       zap |-> acted[t].zap,
                                       once |-> acted[t].once]]]
  /\ pc' = [t \in 1..2 |-> "ret"]
  /\ acted' = [l \in Latches |->
                 [zap |-> (acted[l].zap \/ op = "zap"),
                  once |-> IF op = "zap_once" /\ acted[l].once < 2
                             THEN acted[l].once + 1 ELSE acted[l].once]]
  /\ UNCHANGED <<kind, nthr, ctor, given, done>>

NextPair ==
  \/ /\ ncalls < MaxCalls
     /\ \E op \in Methods : PairCall(op)
  \/ \E t \in 1..nthr : Return(t, "idle")

SpecPair == InitPair /\ [][NextPair]_vars

\* ------------------------------------------------------------- the queries
\* one latch or two of one type are zapped and the operations that only
\* read are called on them: initial_state, as_bool, is_zapped, ==, hash and
\* clone
InitQuery ==
  \E ls \in {{1}, Latches} :
    InitWith("Fuse", 1, ls) \/ InitWith("AtomicFuse", NThreads, ls)

NextQuery ==
  \E t \in 1..nthr :
    \/ /\ ncalls < MaxCalls
       /\ \E self \in Ls, other \in Ls :
            \/ FuseZap(t, self)
            \/ FuseAsBool(t, self)
            \/ FuseIsZapped(t, self)
            \/ FuseInitialState(t, self)
            \/ FuseEq(t, self, other)
            \/ FuseHash(t, self)
            \/ AtomicZap(t, self)
            \/ AtomicAsBool(t, self)
            \/ AtomicIsZapped(t, self)
            \/ AtomicInitialState(t, self)
            \/ AtomicEqLoadSelf(t, self, other)
            \/ AtomicHash(t, self)
            \/ AtomicCloneLoad(t, self)
    \/ AtomicEqLoadOther(t)
    \/ AtomicCloneBuild(t)
    \/ Return(t, "idle")

SpecQuery == InitQuery /\ [][NextQuery]_vars

TypeOK ==
  /\ kind \in {"Fuse", "AtomicFuse", "both"}
  /\ Ls \subseteq Latches
  /\ latch \in [Ls -> [initial_state : BOOLEAN, zapped : BOOLEAN]]
  /\ pc \in [1..nthr -> {"idle", "eq2", "clone2", "ret", "fin"}]
  /\ ncalls \in Nat

\* ================================================================= claims
Returning(t, op) == pc[t] = "ret" /\ call[t].op = op

\* in this step thread t runs the body of op
BodyStep(t, op) == pc[t] # "ret" /\ pc'[t] = "ret" /\ call'[t].op = op

\* the latch has not been acted on by zap() or zap_once()
Untouched(a) == ~a.zap /\ a.once = 0

\* every thread of the race has made its call and the call has returned
AllDone == \A t \in 1..nthr : pc[t] = "fin"

\* C1: when K threads each call zap_once() once on one fresh AtomicFuse,
\* after all calls have returned exactly one returned Ok, K-1 returned
\* Err(AlreadyZappedError), and is_zapped() is true; at no time have two
\* calls returned Ok.
C1_ExactlyOneWinner ==
  /\ done[1].nOk <= 1
  /\ AllDone => /\ done[1].nOk = 1
                /\ done[1].nErr = nthr - 1
                /\ AtomicFuse_is_zapped(latch[1])

C1_Witness == nthr >= 2 /\ AllDone /\ done[1].nErr = nthr - 1 /\ done[1].nOk = 1

\* C2: a zapped fuse never un-zaps: in every step a set zapped flag stays
\* set, and initial_state always equals the value given at construction.
C2_NeverUnzap ==
  [][\A l \in Ls :
       /\ latch[l].zapped => latch'[l].zapped
       /\ latch[l].initial_state = given[l]
       /\ latch'[l].initial_state = given[l]]_vars

C2_Witness ==
  \E l \in Ls :
    latch[l].zapped /\ acted[l].zap /\ acted[l].once >= 1 /\ done[l].asBool # {}

\* C3: the value of as_bool() changes at most once, from i to NOT i: once
\* the value is NOT i it stays NOT i, and an as_bool() call that reads the
\* flag after an as_bool() call returned NOT i returns NOT i.
C3_AsBoolChangesOnce ==
  [][/\ \A l \in Ls :
          AsBool(l) = (~given[l]) => (AsBool(l))' = (~given[l])
     /\ \A t \in 1..nthr :
          (/\ BodyStep(t, "as_bool")
           /\ (~given[call'[t].self]) \in done[call'[t].self].asBool)
          => call'[t].ret.val = (~given[call'[t].self])]_vars

C3_Witness ==
  \E t \in 1..nthr :
    /\ kind = "Fuse"
    /\ Returning(t, "as_bool")
    /\ (~given[call[t].self]) \in done[call[t].self].asBool
    /\ call[t].ret.val = (~given[call[t].self])

\* C4 as stated: the first zap_once() call on a latch returns Ok(NOT i),
\* every later zap_once() call returns Err(AlreadyZappedError), and after
\* the first call the latch is in the post-zap() state.
C4_Original ==
  /\ \A t \in 1..nthr :
       Returning(t, "zap_once") =>
         /\ call[t].at.once = 0 => call[t].ret = Ok((~given[call[t].self]))
         /\ call[t].at.once >= 1 => call[t].ret = AlreadyZappedError
  /\ \A l \in Ls :
       acted[l].once >= 1 => IsZapped(l) /\ AsBool(l) = (~given[l])

\* C4 amended: the first zap_once() call on a latch that no zap() has acted
\* on returns Ok(NOT i); the first zap_once() call after a zap() and every
\* later zap_once() call return Err(AlreadyZappedError); after the first
\* zap_once() call the latch is in the post-zap() state.
C4_FirstZapOnceWins ==
  /\ \A t \in 1..nthr :
       Returning(t, "zap_once") =>
         /\ (call[t].at.once = 0 /\ ~call[t].at.zap)
              => call[t].ret = Ok((~given[call[t].self]))
         /\ (call[t].at.once = 0 /\ call[t].at.zap)
              => call[t].ret = AlreadyZappedError
         /\ call[t].at.once >= 1 => call[t].ret = AlreadyZappedError
  /\ \A l \in Ls :
       acted[l].once >= 1 => IsZapped(l) /\ AsBool(l) = (~given[l])

C4_Witness ==
  \E t \in 1..nthr :
    /\ Returning(t, "zap_once")
    /\ call[t].at.once >= 1 /\ ~call[t].at.zap
    /\ call[t].ret = AlreadyZappedError
    /\ done[call[t].self].nOk = 1

\* C5: zap_once() returns Err(AlreadyZappedError) exactly when the flag was
\* set at the moment of its test, and Ok exactly when it was not; no other
\* operation returns an error.
C5_ErrIffAlreadyZapped ==
  \A t \in 1..nthr :
    pc[t] = "ret" =>
      IF call[t].op = "zap_once"
        THEN /\ call[t].ret = AlreadyZappedError <=> call[t].at.zapped
             /\ call[t].ret.tag = "Ok" <=> ~call[t].at.zapped
        ELSE call[t].ret.tag = "bool"

C5_Witness ==
  \E t \in 1..nthr :
    /\ Returning(t, "zap_once")
    /\ call[t].at.zap /\ call[t].at.once = 0
    /\ call[t].ret = AlreadyZappedError

\* C6: a zap_once() that returns Err(AlreadyZappedError) changes neither
\* field of the latch, and the latch is zapped afterwards.
C6_ErrNoMutation ==
  [][\A t \in 1..nthr :
       (BodyStep(t, "zap_once") /\ call'[t].ret = AlreadyZappedError)
       => /\ latch' = latch
          /\ IsZapped(call'[t].self)
          /\ (IsZapped(call[t].self))'
          /\ (AsBool(call[t].self))' = (~(InitialState(call[t].self))')]_vars

C6_Witness ==
  \E t \in 1..nthr :
    /\ Returning(t, "zap_once")
    /\ call[t].ret = AlreadyZappedError
    /\ IsZapped(call[t].self)
    /\ call[t].at.once >= 1

\* the state one zap() call leaves the freshly constructed latch l in
OneZap(l) ==
  IF kind = "Fuse" THEN Fuse_zap(Construct(kind, ctor, given[l])).self
                   ELSE AtomicFuse_zap(Construct(kind, ctor, given[l])).self

\* the latches and the zap() calls in progress agree with one zap()
C7_State ==
  /\ \A l \in Ls :
       acted[l].zap => /\ latch[l] = OneZap(l)
                       /\ IsZapped(l)
                       /\ AsBool(l) = (~given[l])
  /\ \A t \in 1..nthr, u \in 1..nthr :
       (Returning(t, "zap") /\ Returning(u, "zap") /\ call[t].self = call[u].self)
         => call[t].ret = call[u].ret

\* C7: zap() is idempotent: after any number of zap() calls the latch is in
\* the state one zap() call on the fresh latch leaves, is_zapped() is true,
\* as_bool() is NOT i, and all zap() calls return the same value.
C7_ZapIdempotent ==
  [][/\ C7_State
     /\ C7_State'
     /\ \A t \in 1..nthr :
          BodyStep(t, "zap") =>
            \A v \in done[call'[t].self].zapRet : call'[t].ret.val = v]_vars

C7_Witness ==
  \E t \in 1..nthr, u \in 1..nthr :
    /\ kind = "AtomicFuse"
    /\ t # u
    /\ Returning(t, "zap") /\ Returning(u, "zap")
    /\ call[t].self = call[u].self
    /\ call[t].at.zap
    /\ done[call[t].self].zapRet # {}

\* the values zap() and zap_once() return are NOT initial_state and the
\* latch has the values returned so far
C8_State ==
  /\ \A t \in 1..nthr :
       (Returning(t, "zap") \/ (Returning(t, "zap_once") /\ call[t].ret.tag = "Ok"))
         => call[t].ret.val = (~InitialState(call[t].self))
  /\ \A l \in Ls : \A v \in done[l].zapRet : AsBool(l) = v

\* C8: the value zap() returns, and the value in the Ok of zap_once(), is
\* NOT initial_state, and as_bool() has that value at any time after that call
\* has returned: the latch has that value in every later state, and an
\* as_bool() call that reads the flag after the return returns it.
C8_ZapReturnsNewValue ==
  [][/\ C8_State
     /\ C8_State'
     /\ \A t \in 1..nthr :
          BodyStep(t, "as_bool") =>
            \A v \in done[call'[t].self].zapRet : call'[t].ret.val = v]_vars

C8_Witness ==
  \E t \in 1..nthr :
    /\ kind = "AtomicFuse"
    /\ Returning(t, "as_bool")
    /\ done[call[t].self].zapRet # {}
    /\ done[call[t].self].nOk = 1
    /\ \A v \in done[call[t].self].zapRet : call[t].ret.val = v

\* C9: a latch built by new(i) or from(i) has initial_state() = i,
\* as_bool() = i and is_zapped() = false until it is zapped, and a
\* default-constructed latch is in the state of new(false).
C9_FreshUnzapped ==
  /\ \A l \in Ls :
       Untouched(acted[l]) =>
         /\ InitialState(l) = given[l]
         /\ AsBool(l) = given[l]
         /\ ~IsZapped(l)
         /\ ctor = "default" => latch[l] = Construct(kind, "new", FALSE)
  /\ \A t \in 1..nthr :
       (pc[t] = "ret" /\ Untouched(call[t].at)) =>
         /\ call[t].op = "initial_state" => call[t].ret = Val(given[call[t].self])
         /\ call[t].op = "as_bool" => call[t].ret = Val(given[call[t].self])
         /\ call[t].op = "is_zapped" => call[t].ret = Val(FALSE)

C9_Witness ==
  \E t \in 1..nthr :
    /\ kind = "AtomicFuse"
    /\ ctor = "new"
    /\ Returning(t, "as_bool")
    /\ Untouched(call[t].at)
    /\ given[call[t].self]
    /\ call[t].ret = Val(TRUE)

\* C10: an == between two latches, neither of which changes during the
\* comparison, returns true exactly when their initial_state values match
\* and their is_zapped() values match; equal as_bool() values are not enough.
C10_EqStructural ==
  \A t \in 1..nthr :
    (/\ Returning(t, "eq")
     /\ call[t].pre.s = latch[call[t].self].zapped
     /\ call[t].pre.o = latch[call[t].other].zapped)
    => call[t].ret.val = (/\ InitialState(call[t].self) = InitialState(call[t].other)
                          /\ IsZapped(call[t].self) = IsZapped(call[t].other))

C10_Witness ==
  \E t \in 1..nthr :
    /\ Returning(t, "eq")
    /\ latch[call[t].self] = [initial_state |-> TRUE, zapped |-> TRUE]
    /\ latch[call[t].other] = [initial_state |-> FALSE, zapped |-> FALSE]
    /\ AsBool(call[t].self) = AsBool(call[t].other)
    /\ call[t].ret = Val(FALSE)

\* the latch built from the bool; the latch that was converted is latch 1
Converted == CHOOSE l \in Latches : l # 1

\* in this step thread t builds a latch from the bool its into() returned
FromStep(t) == pc[t] = "ret" /\ call[t].op = "into" /\ DOMAIN latch' # Ls

\* C11: converting a latch f, zapped or not, to a bool b and building a latch
\* from b gives b = f.as_bool() and a latch with zapped = false and
\* initial_state = b; that latch can be zapped again: its first zap_once()
\* returns Ok(NOT b) and sets its flag.
C11_RoundTrip ==
  [][\A t \in 1..nthr :
       /\ BodyStep(t, "into") => call'[t].ret.val = AsBool(call'[t].self)
       /\ FromStep(t) =>
            /\ Converted \in DOMAIN latch' \ Ls
            /\ latch'[Converted] = [initial_state |-> call[t].ret.val, zapped |-> FALSE]
            /\ given'[Converted] = call[t].ret.val
       /\ (/\ BodyStep(t, "zap_once")
           /\ call'[t].self = Converted
           /\ Untouched(acted[Converted])) =>
            /\ call'[t].ret = Ok(~given[Converted])
            /\ latch'[Converted].zapped]_vars

C11_Witness ==
  \E t \in 1..nthr :
    /\ kind = "AtomicFuse"
    /\ ~Untouched(acted[1])
    /\ Returning(t, "zap_once")
    /\ call[t].self = Converted
    /\ call[t].ret.tag = "Ok"
    /\ latch[Converted].initial_state = (~given[1])

\* the latch clone() returns; the latch that was cloned is latch 1
Cloned == CHOOSE l \in Latches : l # 1

\* in this step thread t builds and returns the clone
CloneStep(t) == pc[t] = "clone2" /\ pc'[t] = "idle"

\* C12: the latch clone() returns has the initial_state of the original and
\* the flag value the original had when clone() loaded it; a zap() or
\* zap_once() on one of the two latches leaves the flag and as_bool() of the
\* other unchanged.
C12_CloneIndependent ==
  [][\A t \in 1..nthr :
       /\ CloneStep(t) =>
            /\ Cloned \in DOMAIN latch' \ Ls
            /\ latch'[Cloned] = [initial_state |-> latch[call[t].self].initial_state,
                                 zapped |-> call[t].at.zapped]
            /\ latch'[call[t].self] = latch[call[t].self]
       /\ (BodyStep(t, "zap") \/ BodyStep(t, "zap_once")) =>
            \A m \in Ls \ {call'[t].self} :
              /\ latch'[m] = latch[m]
              /\ AtomicFuse_as_bool(latch'[m]) = AtomicFuse_as_bool(latch[m])]_vars

\* a zap() of the clone has acted and the original is still not zapped
C12_Witness ==
  \E t \in 1..nthr :
    /\ Cloned \in Ls
    /\ Returning(t, "zap")
    /\ call[t].self = Cloned
    /\ latch[Cloned].zapped
    /\ ~latch[1].zapped

\* C13: on an AtomicFuse, a call of is_zapped() or as_bool() that reads the
\* flag after a zap() or a successful zap_once() of another thread has
\* written it observes the zap: is_zapped() returns true and as_bool()
\* returns NOT initial_state.  (When a zap_once() has acted, either it was
\* successful or a zap() had written the flag before it.)
C13_Visibility ==
  \A t \in 1..nthr :
    (kind = "AtomicFuse" /\ (call[t].at.zap \/ call[t].at.once >= 1)) =>
      /\ Returning(t, "is_zapped") => call[t].ret = Val(TRUE)
      /\ Returning(t, "as_bool") => call[t].ret = Val(~InitialState(call[t].self))

\* the zap() of thread u has written the flag and has not returned yet; the
\* is_zapped() of thread t has read the flag after it
C13_Witness ==
  \E t \in 1..nthr, u \in 1..nthr :
    /\ kind = "AtomicFuse"
    /\ t # u
    /\ Returning(u, "zap")
    /\ ~call[u].at.zapped
    /\ Returning(t, "is_zapped")
    /\ call[t].at.zap
    /\ call[t].ret = Val(TRUE)

\* C14: an AtomicFuse driven by one thread and a Fuse built with the same
\* initial state, given the same sequence of zap, zap_once, as_bool,
\* is_zapped and initial_state calls, return the same result at every call
\* and hold the same (initial_state, zapped) pair after every call.
C14_SameModel ==
  kind = "both" =>
    /\ latch[1].initial_state = latch[2].initial_state
    /\ latch[1].zapped = latch[2].zapped
    /\ (pc[1] = "ret" /\ pc[2] = "ret") =>
         call[1].op = call[2].op /\ call[1].ret = call[2].ret
    /\ (pc[1] = "idle" /\ pc[2] = "idle") => done[1] = done[2]

\* the third call of a sequence: a zap_once() that fails on both latches
\* after a zap_once() that succeeded on both
C14_Witness ==
  /\ kind = "both"
  /\ ncalls = 3
  /\ Returning(1, "zap_once") /\ Returning(2, "zap_once")
  /\ call[2].ret = AlreadyZappedError
  /\ done[2].nOk = 1
  /\ latch[2] = [initial_state |-> TRUE, zapped |-> TRUE]

\* every thread is outside a call
AllIdle == \A t \in 1..nthr : pc[t] = "idle"

\* C15: no call waits on another thread: a call that has made its access to
\* the flag can return whatever the other threads do, no state with a call
\* in progress is a deadlock, and under fair scheduling every call returns
\* and in the end every thread has finished its calls.
C15_NonBlocking ==
  /\ [](\A t \in 1..nthr : pc[t] # "idle" => ENABLED Return(t, "idle"))
  /\ [](~AllIdle => ENABLED Next)
  /\ \A t \in 1..NThreads :
       (t \in 1..nthr /\ pc[t] # "idle") ~> (t \in 1..nthr /\ pc[t] = "idle")
  /\ <>[]AllIdle

\* the threads of an AtomicFuse have made all their calls, one of them a
\* zap_once() that returned Err, and every call has returned
C15_Witness ==
  /\ kind = "AtomicFuse"
  /\ ncalls = MaxCalls
  /\ AllIdle
  /\ done[1].nErr >= 1
  /\ done[1].nOk = 1

\* the operations that only read
Queries == {"initial_state", "as_bool", "is_zapped", "eq", "hash", "clone"}

\* in this step thread t runs a part of the body of a query
QueryStep(t) ==
  \/ pc[t] = "idle" /\ pc'[t] # "idle" /\ call'[t].op \in Queries
  \/ pc[t] \in {"eq2", "clone2"} /\ pc'[t] # pc[t]

\* C16: initial_state(), as_bool(), is_zapped(), ==, hash and clone leave
\* initial_state and the zapped flag of every latch unchanged; as_bool()
\* returns initial_state XOR zapped, is_zapped() returns zapped and
\* initial_state() returns initial_state.
C16_QueriesPure ==
  [][\A t \in 1..nthr :
       /\ QueryStep(t) => \A l \in Ls : l \in DOMAIN latch' /\ latch'[l] = latch[l]
       /\ BodyStep(t, "as_bool") =>
            call'[t].ret = Val(Xor(latch[call'[t].self].initial_state,
                                   latch[call'[t].self].zapped))
       /\ BodyStep(t, "is_zapped") =>
            call'[t].ret = Val(latch[call'[t].self].zapped)
       /\ BodyStep(t, "initial_state") =>
            call'[t].ret = Val(latch[call'[t].self].initial_state)]_vars

\* an AtomicFuse was zapped and then cloned; is_zapped() on it returns true
\* and it still equals its clone
C16_Witness ==
  \E t \in 1..nthr :
    /\ kind = "AtomicFuse"
    /\ Cloned \in Ls
    /\ Returning(t, "is_zapped")
    /\ call[t].self = 1
    /\ call[t].ret = Val(TRUE)
    /\ latch[1] = latch[Cloned]
    /\ latch[1].zapped

\* C17: for a Fuse and for an AtomicFuse, zapped or not and with either
\* initial state, the conversion to bool returns what as_bool() returns in
\* that state and the operator ! returns its negation.
C17_IntoAndNot ==
  [][\A t \in 1..nthr :
       /\ BodyStep(t, "into") => call'[t].ret = Val(AsBool(call'[t].self))
       /\ BodyStep(t, "not") => call'[t].ret = Val(~AsBool(call'[t].self))]_vars

\* ! applied to a zapped AtomicFuse with initial state true returns true
C17_Witness ==
  \E t \in 1..nthr :
    /\ kind = "AtomicFuse"
    /\ Returning(t, "not")
    /\ call[t].at.zapped
    /\ given[call[t].self]
    /\ call[t].ret = Val(TRUE)

\* the zap_once() calls on latch l that have got Ok, returned or not
Winners(l) ==
  done[l].nOk
  + Cardinality({t \in 1..nthr : /\ Returning(t, "zap_once")
                                 /\ call[t].self = l
                                 /\ call[t].ret.tag = "Ok"})

\* a zap() or zap_once() call on latch l has returned
SomeCompleted(l) == done[l].zapRet # {} \/ done[l].nOk > 0 \/ done[l].nErr > 0

\* C18: in every interleaving of zap() and zap_once() calls on one
\* AtomicFuse, at most one zap_once() call ever gets Ok; a zap_once() that
\* starts after a zap() or zap_once() call has returned, or after a zap() has
\* acted, gets Err(AlreadyZappedError).
C18_AtMostOneWinner ==
  /\ [](kind = "AtomicFuse" => \A l \in Ls : Winners(l) <= 1)
  /\ [][\A t \in 1..nthr :
          (/\ kind = "AtomicFuse"
           /\ BodyStep(t, "zap_once")
           /\ (SomeCompleted(call'[t].self) \/ acted[call'[t].self].zap)) =>
            call'[t].ret = AlreadyZappedError]_vars

\* a zap() has returned before any zap_once() acted; the first zap_once()
\* gets Err and there is no winner
C18_Witness ==
  \E t \in 1..nthr :
    /\ kind = "AtomicFuse"
    /\ Returning(t, "zap_once")
    /\ call[t].at.once = 0
    /\ done[1].zapRet # {}
    /\ done[1].nOk = 0
    /\ call[t].ret = AlreadyZappedError
    /\ Winners(1) = 0

\* C19: comparing an AtomicFuse with itself returns true in every
\* interleaving, also when another thread zaps it between the two loads of
\* the comparison.
C19_EqReflexive ==
  \A t \in 1..nthr :
    (/\ kind = "AtomicFuse"
     /\ Returning(t, "eq")
     /\ call[t].self = call[t].other) => call[t].ret = Val(TRUE)

\* C20: for both types hash feeds the hasher initial_state and then
\* is_zapped(); two latches that compare equal while nothing else runs have
\* the same hash input, and two latches with the same as_bool() and different
\* (initial_state, zapped) pairs have different hash inputs.
C20_HashConsistent ==
  /\ \A t \in 1..nthr :
       Returning(t, "hash") =>
         call[t].ret.val = <<InitialState(call[t].self), call[t].at.zapped>>
  /\ \A l \in Ls, m \in Ls :
       /\ Eq(l, m) => Hash(l) = Hash(m)
       /\ (AsBool(l) = AsBool(m) /\ latch[l] # latch[m]) => Hash(l) # Hash(m)

\* a zapped Fuse with initial state true and a fresh Fuse with initial
\* state false: as_bool() is false for both, the hash inputs differ
C20_Witness ==
  \E t \in 1..nthr :
    /\ kind = "Fuse"
    /\ Ls = Latches
    /\ latch[1] = [initial_state |-> TRUE, zapped |-> TRUE]
    /\ latch[2] = [initial_state |-> FALSE, zapped |-> FALSE]
    /\ Returning(t, "hash")
    /\ call[t].self = 1
    /\ call[t].ret.val = <<TRUE, TRUE>>
    /\ AsBool(1) = AsBool(2)
    /\ ~Eq(1, 2)
    /\ Hash(1) # Hash(2)
====
